---- MODULE Spec2Model ----
(***************************************************************************)
(* SplitPay escrow backend (src/main.py, src/schemas.py).                  *)
(*                                                                         *)
(* The "escrow" and "telegramprofile" collections, the HTTP handlers        *)
(* create_escrow, create_p2p_escrow, list_escrows, confirm_escrow,         *)
(* release_escrow and telegram_webhook, and the way the handlers read and  *)
(* write the document store.                                               *)
(*                                                                         *)
(* Spec        every handler runs to completion before the next one        *)
(*             starts.                                                     *)
(* SpecCreate  create_escrow applied to one request body.                  *)
(* SpecConc    confirm_escrow and release_escrow run as separate store     *)
(*             operations (find_one / update_one) that interleave freely.  *)
(* SpecList    list_escrows applied to a store of many escrows.            *)
(* SpecTg      webhook deliveries handled one after another.               *)
(* SpecTgConc  webhook deliveries whose store operations interleave.       *)
(*                                                                         *)
(* Percentages are floats in the source; here they are integers counting   *)
(* millionths of a percent, so that the 1e-6 tolerance of create_escrow is *)
(* one unit.                                                               *)
(***************************************************************************)
EXTENDS Integers, Sequences, FiniteSets, TLC

(***************************************************************************)
(* Bounds of the model.                                                    *)
(***************************************************************************)
MaxRecipients == 2
MaxClock == 1
\* The longest store list_escrows is applied to: one document more than the
\* page it returns.
MaxListed == 51

(***************************************************************************)
(* Values the requests are drawn from.                                     *)
(***************************************************************************)
Emails == {"a@x.com", "b@x.com", "c@x.com"}
PayerEmails == {"a@x.com", "b@x.com"}

Micro == 1000 * 1000
Hundred == 100 * Micro
Tolerance == 1

\* Hundred - 1 is within the tolerance of 100 and Hundred - 2 is not.
Percentages == {30 * Micro, 40 * Micro, 60 * Micro, Hundred - 2, Hundred - 1, Hundred}

Amounts == {0, 25}
Currencies == {"USD", "USDC", "USDT", "ETH", "BTC"}
Chains == {"ethereum", "polygon", "solana", "bitcoin", "testnet"}
Statuses == {"pending", "funded", "releasable", "released", "cancelled"}
RequestCurrencies == {"USDC", "DOGE"}
RequestChains == {"testnet"}

\* An escrow id as the caller writes it: <<"oid", n>> parses as an ObjectId,
\* <<"bad", 0>> does not.
MalformedId == <<"bad", 0>>
NoId == <<"none", 0>>
OidOf(n) == <<"oid", n>>
\* The model follows one stored escrow: the handlers read and write only the
\* document whose _id they are given. UnknownId is an ObjectId of no document.
EscrowIds == {OidOf(1)}
UnknownId == OidOf(2)
RequestIds == EscrowIds \cup {UnknownId, MalformedId}
NoEmail == ""

VARIABLES
    escrow,     \* the "escrow" collection: escrow[n] is the document with _id OidOf(n)
    clock,      \* datetime.now(timezone.utc)
    resp,       \* the response of the last request that completed
    req,        \* SpecCreate: the body of the request being made
    procs,      \* SpecConc: the requests in flight, each at its next store operation
    releases,   \* history: releases[id] is how often release_escrow succeeded on
                \* id: "never", "once" or "again" (more than once)
    confirmers, \* history: confirmers[id] is the set of actors whose confirm
                \* succeeded on id since it was created or last released
    repeat,     \* history: the last two requests were successful confirms of
                \* one actor on one id
    telegramprofile, \* the "telegramprofile" collection, in insertion order
    sent,       \* the sendMessage posts of the last webhook delivery
    telegram_api \* TELEGRAM_API is set: the process has a bot token

history == <<releases, confirmers, repeat>>
telegram == <<telegramprofile, sent, telegram_api>>
vars == <<escrow, clock, resp, req, procs, releases, confirmers, repeat, telegram>>

(***************************************************************************)
(* schemas.py                                                              *)
(***************************************************************************)
\* Recipient: percentage is a float with ge=0, le=100.
RecipientValid(r) == r.percentage >= 0 /\ r.percentage <= Hundred

\* Escrow: total_amount > 0, currency and chain are Literals.
EscrowValid(d) ==
    /\ d.total_amount > 0
    /\ d.currency \in Currencies
    /\ d.chain \in Chains
    /\ d.status \in Statuses
    /\ \A i \in 1..Len(d.recipients) : RecipientValid(d.recipients[i])

\* Escrow(...) as the handlers build it.
Escrow(payer_email, total_amount, currency, chain, recipients) ==
    [payer_email |-> payer_email,
     total_amount |-> total_amount,
     currency |-> currency,
     chain |-> chain,
     recipients |-> recipients,
     payer_confirmed |-> FALSE,
     status |-> "funded"]

(***************************************************************************)
(* The document store.                                                     *)
(***************************************************************************)
\* ObjectId(escrow_id) raises on a malformed id.
IsObjectId(escrow_id) == escrow_id[1] = "oid"

\* db["escrow"].find_one({"_id": oid}) finds a document.
Found(store, escrow_id) == escrow_id[2] \in 1..Len(store)

find_one(store, escrow_id) == store[escrow_id[2]]

\* {"$set": updates} applied to a document.
ApplySet(doc, updates) ==
    [f \in DOMAIN doc |-> IF f \in DOMAIN updates THEN updates[f] ELSE doc[f]]

\* db["escrow"].update_one({"_id": oid}, {"$set": updates})
update_one(store, escrow_id, updates) ==
    IF Found(store, escrow_id)
    THEN [store EXCEPT ![escrow_id[2]] = ApplySet(@, updates)]
    ELSE store

\* create_document("escrow", doc): stamps the document and inserts it.
create_document(store, doc, now) ==
    Append(store, doc @@ [updated_at |-> now])

Response(op, id, actor, code, detail, status) ==
    [op |-> op, id |-> id, actor |-> actor, code |-> code, detail |-> detail,
     status |-> status]

NoResponse == Response("none", NoId, NoEmail, 0, "", "")

RECURSIVE SumPct(_)
SumPct(rs) == IF rs = <<>> THEN 0 ELSE rs[1].percentage + SumPct(Tail(rs))

Abs(x) == IF x < 0 THEN 0 - x ELSE x

(***************************************************************************)
(* POST /api/escrows                                                       *)
(***************************************************************************)
\* The handler's result: the collection afterwards and the response.
Result(store, response) == [escrow |-> store, resp |-> response]

\* Mutant of SumRejected: exact comparison, no tolerance.
SumRejected_Exact(total_pct) == total_pct # Hundred

\* abs(total_pct - 100) > 1e-6
SumRejected(total_pct) == Abs(total_pct - Hundred) > Tolerance

create_escrow(store, payload, now) ==
    LET recs == payload.recipients
        total_pct == SumPct(recs)
        escrow_doc == Escrow(payload.payer_email, payload.total_amount,
                             payload.currency, payload.chain, recs)
        rejected(code, detail) ==
            Result(store, Response("create", NoId, NoEmail, code, detail, ""))
    IN  IF \E i \in 1..Len(recs) : ~RecipientValid(recs[i])
        THEN rejected(422, "Unprocessable Entity")
        ELSE IF SumRejected(total_pct)
        THEN rejected(400, "Recipient percentages must add up to 100")
        ELSE IF ~EscrowValid(escrow_doc)
        THEN rejected(500, "Internal Server Error")
        ELSE Result(create_document(store, escrow_doc, now),
                    Response("create", OidOf(Len(store) + 1), NoEmail,
                             200, "Escrow created", escrow_doc.status))

(***************************************************************************)
(* POST /api/p2p                                                           *)
(***************************************************************************)
create_p2p_escrow(store, payload, now) ==
    LET recipients == <<[email |-> payload.recipient_email, percentage |-> Hundred,
                         confirmed |-> FALSE]>>
        escrow_doc == Escrow(payload.payer_email, payload.amount,
                             payload.currency, payload.chain, recipients)
    IN  IF ~EscrowValid(escrow_doc)
        THEN Result(store, Response("p2p", NoId, NoEmail, 500,
                                    "Internal Server Error", ""))
        ELSE Result(create_document(store, escrow_doc, now),
                    Response("p2p", OidOf(Len(store) + 1), NoEmail,
                             200, "P2P escrow created", escrow_doc.status))

(***************************************************************************)
(* POST /api/escrows/{escrow_id}/confirm                                   *)
(***************************************************************************)
\* Mutant of MarkRecipients: the loop stops at the first match.
MarkRecipients_FirstOnly(recs, actor) ==
    [i \in 1..Len(recs) |->
        IF recs[i].email = actor /\ \A j \in 1..(i - 1) : recs[j].email # actor
        THEN [recs[i] EXCEPT !.confirmed = TRUE]
        ELSE recs[i]]

\* Mutant of MarkRecipients: only the matching entries are written back.
MarkRecipients_OnlyMatches(recs, actor) ==
    LET Matches(r) == r.email = actor
        kept == SelectSeq(recs, Matches)
    IN  [i \in 1..Len(kept) |-> [kept[i] EXCEPT !.confirmed = TRUE]]

\* The loop over recs: every entry with the actor's email is marked.
MarkRecipients(recs, actor) ==
    [i \in 1..Len(recs) |->
        IF recs[i].email = actor THEN [recs[i] EXCEPT !.confirmed = TRUE] ELSE recs[i]]

\* "changed" after the loop.
IsRecipient(doc, actor) ==
    \E i \in 1..Len(doc.recipients) : doc.recipients[i].email = actor

\* Mutant of ConfirmUpdates: an actor who is no party is not rejected.
ConfirmUpdates_NoRaise(doc, actor, now) ==
    IF actor = doc.payer_email
    THEN [ok |-> TRUE, set |-> [updated_at |-> now, payer_confirmed |-> TRUE]]
    ELSE [ok |-> TRUE,
          set |-> [updated_at |-> now,
                   recipients |-> MarkRecipients(doc.recipients, actor)]]

\* Mutant of ConfirmUpdates: the payer's confirmation toggles the flag.
ConfirmUpdates_Toggle(doc, actor, now) ==
    IF actor = doc.payer_email
    THEN [ok |-> TRUE,
          set |-> [updated_at |-> now, payer_confirmed |-> ~doc.payer_confirmed]]
    ELSE IF IsRecipient(doc, actor)
    THEN [ok |-> TRUE,
          set |-> [updated_at |-> now,
                   recipients |-> MarkRecipients(doc.recipients, actor)]]
    ELSE [ok |-> FALSE, set |-> [updated_at |-> now]]

\* The updates the handler builds from the document it read; ok is FALSE where
\* the handler raises "Actor not part of this escrow".
ConfirmUpdates(doc, actor, now) ==
    IF actor = doc.payer_email
    THEN [ok |-> TRUE, set |-> [updated_at |-> now, payer_confirmed |-> TRUE]]
    ELSE IF IsRecipient(doc, actor)
    THEN [ok |-> TRUE,
          set |-> [updated_at |-> now,
                   recipients |-> MarkRecipients(doc.recipients, actor)]]
    ELSE [ok |-> FALSE, set |-> [updated_at |-> now]]

AllRecConfirmed(doc) ==
    \A i \in 1..Len(doc.recipients) : doc.recipients[i].confirmed

\* Mutant of NewStatus: the recipients' flags are not looked at.
NewStatus_PayerOnly(doc) ==
    IF doc.payer_confirmed THEN "releasable" ELSE doc.status

\* new_status, computed from the document read back after the update.
NewStatus(doc) ==
    IF doc.payer_confirmed /\ AllRecConfirmed(doc) THEN "releasable" ELSE doc.status

confirm_escrow(store, escrow_id, actor, now) ==
    LET rejected(code, detail) ==
            Result(store, Response("confirm", escrow_id, actor, code, detail, ""))
        no_doc(code, detail) ==
            Result(store, Response("confirm", escrow_id, NoEmail, code, detail, ""))
    IN  IF ~IsObjectId(escrow_id)
        THEN no_doc(400, "Invalid escrow id")
        ELSE IF ~Found(store, escrow_id)
        THEN no_doc(404, "Escrow not found")
        ELSE LET u == ConfirmUpdates(find_one(store, escrow_id), actor, now)
             IN  IF ~u.ok
                 THEN rejected(400, "Actor not part of this escrow")
                 ELSE LET store1 == update_one(store, escrow_id, u.set)
                          doc == find_one(store1, escrow_id)
                          new_status == NewStatus(doc)
                          store2 == IF new_status # doc.status
                                    THEN update_one(store1, escrow_id,
                                                    [status |-> new_status])
                                    ELSE store1
                      IN  Result(store2, Response("confirm", escrow_id, actor, 200,
                                                  "Confirmation recorded", new_status))

(***************************************************************************)
(* POST /api/escrows/{escrow_id}/release                                   *)
(***************************************************************************)
\* Mutant of Releasable: anything not yet released is released.
Releasable_NotReleased(doc) == doc.status # "released"

\* The status test of release_escrow.
Releasable(doc) == doc.status = "releasable"

release_escrow(store, escrow_id) ==
    LET rejected(code, detail) ==
            Result(store, Response("release", escrow_id, NoEmail, code, detail, ""))
    IN  IF ~IsObjectId(escrow_id)
        THEN rejected(400, "Invalid escrow id")
        ELSE IF ~Found(store, escrow_id)
        THEN rejected(404, "Escrow not found")
        ELSE IF ~Releasable(find_one(store, escrow_id))
        THEN rejected(400, "Escrow is not yet releasable")
        ELSE Result(update_one(store, escrow_id, [status |-> "released"]),
                    Response("release", escrow_id, NoEmail, 200,
                             "Funds released (simulated)", "released"))

\* get_documents("escrow", filter_query, limit=50)
ListLimit == 50

\* filter_query: {} when no email is given (None and "" are both falsy),
\* otherwise {"$or": [{"payer_email": email}, {"recipients.email": email}]}.
FilterQuery(email) ==
    IF email = NoEmail THEN [kind |-> "all"] ELSE [kind |-> "or", email |-> email]

\* Mutant of MatchesQuery: the recipients.email branch of the $or is dropped.
MatchesQuery_PayerOnly(doc, q) ==
    q.kind = "or" => doc.payer_email = q.email

\* A document satisfies filter_query.
MatchesQuery(doc, q) ==
    q.kind = "or" =>
        \/ doc.payer_email = q.email
        \/ \E i \in 1..Len(doc.recipients) : doc.recipients[i].email = q.email

\* The positions, in store order, of the first n documents that satisfy q.
RECURSIVE Matching(_, _, _)
Matching(store, q, n) ==
    IF n = 0 THEN <<>>
    ELSE IF MatchesQuery(store[n], q) THEN Append(Matching(store, q, n - 1), n)
    ELSE Matching(store, q, n - 1)

\* get_documents(collection, filter, limit): the first limit documents that
\* satisfy the filter.
get_documents(store, q, limit) ==
    LET found == Matching(store, q, Len(store))
        k == IF Len(found) < limit THEN Len(found) ELSE limit
    IN  [i \in 1..k |-> [_id |-> OidOf(found[i]), doc |-> store[found[i]]]]

\* list_escrows: each document is returned with its _id exposed as id.
list_escrows(store, email) ==
    LET escrows == get_documents(store, FilterQuery(email), ListLimit)
    IN  [op |-> "list", email |-> email,
         items |-> [i \in 1..Len(escrows) |->
                       [id |-> escrows[i]._id] @@ escrows[i].doc]]

(***************************************************************************)
(* POST /telegram/webhook                                                  *)
(*                                                                         *)
(* The text of a message is given by its tokens, text.split(); the text    *)
(* is stripped, so it starts with its first token.                         *)
(***************************************************************************)
ChatIds == {7, 8}

\* EmailStr accepts the string.
IsEmail(s) == s \in Emails

\* float(s): the strings that parse, and their values.
FloatOf == ("25" :> 25) @@ ("0" :> 0)

\* An escrow id as it is typed into a chat: "id1" and "id2" are the strings
\* of OidOf(1) and OidOf(2), any other string is not an ObjectId.
IdText == ("id1" :> OidOf(1)) @@ ("id2" :> OidOf(2))
EscrowIdOf(s) == IF s \in DOMAIN IdText THEN IdText[s] ELSE MalformedId
TextOfId(id) == CHOOSE t \in DOMAIN IdText : IdText[t] = id

\* s.startswith(prefix)
StartsWith(s, prefix) ==
    Len(s) >= Len(prefix) /\ SubSeq(s, 1, Len(prefix)) = prefix

\* text.startswith(command)
TextStartsWith(parts, command) ==
    parts # <<>> /\ StartsWith(parts[1], command)

\* TelegramProfile(chat_id=chat_id, username=username): no email yet.
TelegramProfile(chat_id) == [chat_id |-> chat_id, email |-> NoEmail]

\* The place of the first profile of chat_id, 0 when there is none.
ProfileAt(profiles, chat_id) ==
    LET hits == {i \in 1..Len(profiles) : profiles[i].chat_id = chat_id}
    IN  IF hits = {} THEN 0 ELSE CHOOSE i \in hits : \A j \in hits : i <= j

\* db["telegramprofile"].update_one({"chat_id": chat_id}, {"$set": updates})
update_profile(profiles, chat_id, updates) ==
    IF ProfileAt(profiles, chat_id) = 0 THEN profiles
    ELSE [profiles EXCEPT ![ProfileAt(profiles, chat_id)] = ApplySet(@, updates)]

\* Mutant of Linked: every profile counts as linked.
Linked_Always(profile) == TRUE

\* (profile or {}).get("email") is truthy.
Linked(profile) == profile.email # NoEmail

Message(text, arg, items) == [text |-> text, arg |-> arg, items |-> items]

\* send_telegram_message: one sendMessage post, none without TELEGRAM_API.
send_telegram_message(api, posts, chat_id, message) ==
    IF ~api THEN posts
    ELSE Append(posts, [chat_id |-> chat_id, message |-> message])

\* What a delivery leaves behind: the two collections, the posts made, the
\* status of the response to the transport (200 with {"ok": True}, 500 when
\* an exception escapes) and the engine operations that ran.
Delivered(store, profiles, posts, code, calls) ==
    [escrow |-> store, telegramprofile |-> profiles, sent |-> posts,
     code |-> code, calls |-> calls]

LinkPrompt == "Please link your email first: /link your@email.com"
MyLinkPrompt == "Link your email first: /link your@email.com"
UnknownCommand == "Unknown command. Try /start"

\* items[:10]
MyLimit == 10

\* The command branches of telegram_webhook; profile is the profile the
\* handler read before them.
Command(api, store, profiles, profile, chat_id, parts, now) ==
    LET reply(text, arg, items) ==
            send_telegram_message(api, <<>>, chat_id, Message(text, arg, items))
        answered(text, arg) ==
            Delivered(store, profiles, reply(text, arg, <<>>), 200, <<>>)
        raised == Delivered(store, profiles, <<>>, 500, <<>>)
    IN  IF TextStartsWith(parts, "/start")
        THEN answered("Welcome to SplitPay P2P!", "")
        ELSE IF TextStartsWith(parts, "/link")
        THEN IF Len(parts) >= 2
             THEN Delivered(store,
                            update_profile(profiles, chat_id, [email |-> parts[2]]),
                            reply("Linked email: ", parts[2], <<>>), 200, <<>>)
             ELSE answered("Usage: /link your@email.com", "")
        ELSE IF TextStartsWith(parts, "/pay")
        THEN IF Len(parts) >= 3
             THEN IF parts[3] \notin DOMAIN FloatOf
                  THEN answered("Amount must be a number, e.g., 25", "")
                  ELSE IF ~Linked(profile)
                  THEN answered(LinkPrompt, "")
                  ELSE LET currency == IF Len(parts) >= 4 THEN parts[4] ELSE "USDC"
                           recipients == <<[email |-> parts[2], percentage |-> Hundred,
                                            confirmed |-> FALSE]>>
                           escrow_doc == Escrow(profile.email, FloatOf[parts[3]],
                                                currency, "testnet", recipients)
                       IN  IF \/ ~IsEmail(parts[2])
                              \/ ~IsEmail(profile.email)
                              \/ ~EscrowValid(escrow_doc)
                           THEN raised
                           ELSE Delivered(create_document(store, escrow_doc, now),
                                          profiles,
                                          reply("Created escrow ",
                                                TextOfId(OidOf(Len(store) + 1)), <<>>),
                                          200, <<"create">>)
             ELSE answered("Usage: /pay recipient@email 25 [USDC]", "")
        ELSE IF TextStartsWith(parts, "/confirm")
        THEN IF Len(parts) >= 2
             THEN IF ~Linked(profile)
                  THEN answered(LinkPrompt, "")
                  ELSE IF ~IsEmail(profile.email)
                  THEN raised
                  ELSE LET r == confirm_escrow(store, EscrowIdOf(parts[2]),
                                               profile.email, now)
                       IN  Delivered(r.escrow, profiles,
                                     IF r.resp.code = 200
                                     THEN reply("Confirmed. Status: ", r.resp.status, <<>>)
                                     ELSE reply(r.resp.detail, "", <<>>),
                                     200, <<"confirm">>)
             ELSE answered("Usage: /confirm <escrow_id>", "")
        ELSE IF TextStartsWith(parts, "/release")
        THEN IF Len(parts) >= 2
             THEN LET r == release_escrow(store, EscrowIdOf(parts[2]))
                  IN  Delivered(r.escrow, profiles,
                                IF r.resp.code = 200
                                THEN reply("Released. Status: ", r.resp.status, <<>>)
                                ELSE reply(r.resp.detail, "", <<>>),
                                200, <<"release">>)
             ELSE answered("Usage: /release <escrow_id>", "")
        ELSE IF TextStartsWith(parts, "/my")
        THEN IF ~Linked(profile)
             THEN answered(MyLinkPrompt, "")
             ELSE LET items == list_escrows(store, profile.email).items
                      k == IF Len(items) < MyLimit THEN Len(items) ELSE MyLimit
                  IN  Delivered(store, profiles,
                                IF items = <<>>
                                THEN reply("No escrows yet.", "", <<>>)
                                ELSE reply("Your escrows:", "",
                                           [i \in 1..k |-> items[i].id]),
                                200, <<"list">>)
        ELSE answered(UnknownCommand, "")

\* An update without a message.
NoMessage == [message |-> FALSE]

telegram_webhook(api, store, profiles, update, now) ==
    IF ~api \/ ~update.message
    THEN Delivered(store, profiles, <<>>, 200, <<>>)
    ELSE LET ensured == IF ProfileAt(profiles, update.chat_id) = 0
                        THEN create_document(profiles,
                                             TelegramProfile(update.chat_id), now)
                        ELSE profiles
             profile == ensured[ProfileAt(ensured, update.chat_id)]
         IN  Command(api, store, ensured, profile, update.chat_id, update.parts, now)

(***************************************************************************)
(* Requests                                                                *)
(***************************************************************************)
RecipientInputs == [email : Emails, percentage : Percentages, confirmed : BOOLEAN]

RecipientLists == UNION {[1..n -> RecipientInputs] : n \in 0..MaxRecipients}

CreateEscrowRequest ==
    [payer_email : PayerEmails, total_amount : Amounts, currency : RequestCurrencies,
     chain : RequestChains, recipients : RecipientLists]

\* The request bodies whose amount, currency and chain the Escrow schema
\* accepts.
AcceptableEscrowRequest ==
    [payer_email : PayerEmails, total_amount : {a \in Amounts : a > 0},
     currency : RequestCurrencies \cap Currencies, chain : RequestChains \cap Chains,
     recipients : RecipientLists]

P2PCreateRequest ==
    [payer_email : PayerEmails, recipient_email : Emails, amount : Amounts,
     currency : RequestCurrencies, chain : RequestChains]

Procs == {"p1", "p2"}
Idle == [pc |-> "idle"]
NoRequest == [op |-> "none"]

(***************************************************************************)
(* Spec: the handlers run one after another.                               *)
(***************************************************************************)
Init ==
    /\ escrow = <<>>
    /\ clock = 0
    /\ resp = NoResponse
    /\ req = NoRequest
    /\ procs = [p \in Procs |-> Idle]
    /\ releases = [id \in EscrowIds |-> "never"]
    /\ confirmers = [id \in EscrowIds |-> {}]
    /\ repeat = FALSE
    /\ telegramprofile = <<>>
    /\ sent = <<>>
    /\ telegram_api = FALSE

Succeeded(response, op) == response.op = op /\ response.code = 200

\* The histories after a request was answered with response; was is the
\* response of the request before it.
Released(response) ==
    IF Succeeded(response, "release")
    THEN [releases EXCEPT ![response.id] = IF @ = "never" THEN "once" ELSE "again"]
    ELSE releases

Confirmers(response) ==
    IF Succeeded(response, "confirm")
    THEN [confirmers EXCEPT ![response.id] = @ \cup {response.actor}]
    ELSE IF Succeeded(response, "release")
    THEN [confirmers EXCEPT ![response.id] = {}]
    ELSE confirmers

Repeat(was, response) ==
    /\ Succeeded(was, "confirm")
    /\ Succeeded(response, "confirm")
    /\ response.id = was.id
    /\ response.actor = was.actor

\* The store has an _id left for one more document.
HasRoom == OidOf(Len(escrow) + 1) \in EscrowIds

\* A handler ran to completion with result r.
Completes(r) ==
    /\ escrow' = r.escrow
    /\ resp' = r.resp
    /\ releases' = Released(r.resp)
    /\ confirmers' = Confirmers(r.resp)
    /\ repeat' = Repeat(resp, r.resp)
    /\ UNCHANGED <<clock, req, procs, telegram>>

Tick ==
    /\ clock < MaxClock
    /\ clock' = clock + 1
    /\ UNCHANGED <<escrow, resp, req, procs, history, telegram>>

CreateEscrow == HasRoom /\ \E payload \in AcceptableEscrowRequest :
    Completes(create_escrow(escrow, payload, clock))

CreateP2P == HasRoom /\ \E payload \in P2PCreateRequest :
    Completes(create_p2p_escrow(escrow, payload, clock))

ConfirmEscrow == \E escrow_id \in RequestIds, actor \in Emails :
    Completes(confirm_escrow(escrow, escrow_id, actor, clock))

ReleaseEscrow == \E escrow_id \in RequestIds :
    Completes(release_escrow(escrow, escrow_id))

Next == Tick \/ CreateEscrow \/ CreateP2P \/ ConfirmEscrow \/ ReleaseEscrow

Spec == Init /\ [][Next]_vars

(***************************************************************************)
(* SpecCreate: create_escrow applied to one request body, of any amount    *)
(* and currency.                                                           *)
(***************************************************************************)
InitCreate ==
    /\ escrow = <<>>
    /\ clock = 0
    /\ resp = NoResponse
    /\ req \in [op : {"create"}, payload : CreateEscrowRequest]
    /\ procs = [p \in Procs |-> Idle]
    /\ releases = [id \in EscrowIds |-> "never"]
    /\ confirmers = [id \in EscrowIds |-> {}]
    /\ repeat = FALSE
    /\ telegramprofile = <<>>
    /\ sent = <<>>
    /\ telegram_api = FALSE

SubmitCreate ==
    /\ resp = NoResponse
    /\ LET r == create_escrow(escrow, req.payload, clock)
       IN  /\ escrow' = r.escrow
           /\ resp' = r.resp
    /\ UNCHANGED <<clock, req, procs, history, telegram>>

NextCreate == SubmitCreate

SpecCreate == InitCreate /\ [][NextCreate]_vars

(***************************************************************************)
(* SpecConc: requests in flight. Each step of a request is one operation   *)
(* of the store (find_one, update_one or the insert), which the store      *)
(* performs atomically; the steps of different requests interleave freely. *)
(***************************************************************************)
Rcpt(email, percentage) ==
    [email |-> email, percentage |-> percentage, confirmed |-> FALSE]

ConcRecipientLists ==
    {<<Rcpt("b@x.com", Hundred)>>,
     <<Rcpt("b@x.com", 60 * Micro), Rcpt("c@x.com", 40 * Micro)>>,
     <<Rcpt("b@x.com", 60 * Micro), Rcpt("b@x.com", 40 * Micro)>>}

ConcCreateRequest ==
    [payer_email : {"a@x.com"}, total_amount : {25}, currency : {"USDC"},
     chain : {"testnet"}, recipients : ConcRecipientLists]

Done(response) == [pc |-> "done", resp |-> response]

Goes(p, state) == procs' = [procs EXCEPT ![p] = state]

\* create_escrow: validation, then the one insert.
ConcCreate ==
    /\ HasRoom
    /\ \E payload \in ConcCreateRequest :
          escrow' = create_escrow(escrow, payload, clock).escrow
    /\ UNCHANGED <<clock, resp, req, procs, history, telegram>>

\* confirm_escrow up to its first update: ObjectId(), find_one, the updates.
ConfirmRead(p) ==
    /\ procs[p].pc = "idle"
    /\ \E escrow_id \in RequestIds, actor \in Emails :
          LET rejected(a, code, detail) ==
                  Done(Response("confirm", escrow_id, a, code, detail, ""))
          IN  IF ~IsObjectId(escrow_id)
              THEN Goes(p, rejected(NoEmail, 400, "Invalid escrow id"))
              ELSE IF ~Found(escrow, escrow_id)
              THEN Goes(p, rejected(NoEmail, 404, "Escrow not found"))
              ELSE LET u == ConfirmUpdates(find_one(escrow, escrow_id), actor, clock)
                   IN  IF ~u.ok
                       THEN Goes(p, rejected(actor, 400, "Actor not part of this escrow"))
                       ELSE Goes(p, [pc |-> "confirm_update", id |-> escrow_id,
                                     actor |-> actor, set |-> u.set])
    /\ UNCHANGED <<escrow, clock, resp, req, history, telegram>>

\* db["escrow"].update_one({"_id": oid}, {"$set": updates})
ConfirmUpdate(p) ==
    /\ procs[p].pc = "confirm_update"
    /\ escrow' = update_one(escrow, procs[p].id, procs[p].set)
    /\ Goes(p, [pc |-> "confirm_reread", id |-> procs[p].id, actor |-> procs[p].actor])
    /\ UNCHANGED <<clock, resp, req, history, telegram>>

\* The second find_one and new_status.
ConfirmReread(p) ==
    /\ procs[p].pc = "confirm_reread"
    /\ LET doc == find_one(escrow, procs[p].id)
           new_status == NewStatus(doc)
       IN  IF new_status # doc.status
           THEN Goes(p, [pc |-> "confirm_status", id |-> procs[p].id,
                         actor |-> procs[p].actor, new_status |-> new_status])
           ELSE Goes(p, Done(Response("confirm", procs[p].id, procs[p].actor, 200,
                                      "Confirmation recorded", new_status)))
    /\ UNCHANGED <<escrow, clock, resp, req, history, telegram>>

\* db["escrow"].update_one({"_id": oid}, {"$set": {"status": new_status}})
ConfirmSetStatus(p) ==
    /\ procs[p].pc = "confirm_status"
    /\ escrow' = update_one(escrow, procs[p].id, [status |-> procs[p].new_status])
    /\ Goes(p, Done(Response("confirm", procs[p].id, procs[p].actor, 200,
                             "Confirmation recorded", procs[p].new_status)))
    /\ UNCHANGED <<clock, resp, req, history, telegram>>

\* release_escrow up to its update: ObjectId(), find_one, the status test.
ReleaseRead(p) ==
    /\ procs[p].pc = "idle"
    /\ \E escrow_id \in RequestIds :
          LET rejected(code, detail) ==
                  Done(Response("release", escrow_id, NoEmail, code, detail, ""))
          IN  IF ~IsObjectId(escrow_id)
              THEN Goes(p, rejected(400, "Invalid escrow id"))
              ELSE IF ~Found(escrow, escrow_id)
              THEN Goes(p, rejected(404, "Escrow not found"))
              ELSE IF ~Releasable(find_one(escrow, escrow_id))
              THEN Goes(p, rejected(400, "Escrow is not yet releasable"))
              ELSE Goes(p, [pc |-> "release_update", id |-> escrow_id])
    /\ UNCHANGED <<escrow, clock, resp, req, history, telegram>>

\* db["escrow"].update_one({"_id": oid}, {"$set": {"status": "released"}})
ReleaseUpdate(p) ==
    /\ procs[p].pc = "release_update"
    /\ escrow' = update_one(escrow, procs[p].id, [status |-> "released"])
    /\ LET response == Response("release", procs[p].id, NoEmail, 200,
                                "Funds released (simulated)", "released")
       IN  /\ Goes(p, Done(response))
           /\ releases' = Released(response)
    /\ UNCHANGED <<clock, resp, req, confirmers, repeat, telegram>>

\* The response is sent; the worker takes the next request.
Return(p) ==
    /\ procs[p].pc = "done"
    /\ Goes(p, Idle)
    /\ UNCHANGED <<escrow, clock, resp, req, history, telegram>>

NextConc ==
    \/ ConcCreate
    \/ \E p \in Procs : ConfirmRead(p)
    \/ \E p \in Procs : ConfirmUpdate(p)
    \/ \E p \in Procs : ConfirmReread(p)
    \/ \E p \in Procs : ConfirmSetStatus(p)
    \/ \E p \in Procs : ReleaseRead(p)
    \/ \E p \in Procs : ReleaseUpdate(p)
    \/ \E p \in Procs : Return(p)

SpecConc == Init /\ [][NextConc]_vars

(***************************************************************************)
(* SpecList: list_escrows applied to a store of up to MaxListed escrows.   *)
(* The documents of the store alternate between two of four escrows that   *)
(* create_escrow accepts.                                                  *)
(***************************************************************************)
ListedEscrows ==
    {Escrow("a@x.com", 25, "USDC", "testnet", <<Rcpt("b@x.com", Hundred)>>),
     Escrow("b@x.com", 25, "USDC", "testnet",
            <<Rcpt("c@x.com", 60 * Micro), Rcpt("a@x.com", 40 * Micro)>>),
     Escrow("b@x.com", 25, "USDC", "testnet", <<Rcpt("c@x.com", Hundred)>>),
     Escrow("a@x.com", 25, "USDC", "testnet",
            <<Rcpt("a@x.com", 60 * Micro), Rcpt("b@x.com", 40 * Micro)>>)}

\* The store after n inserts, of odd and even in turn.
RECURSIVE ListedStore(_, _, _)
ListedStore(n, odd, even) ==
    IF n = 0 THEN <<>>
    ELSE create_document(ListedStore(n - 1, odd, even),
                         IF n % 2 = 1 THEN odd ELSE even, 0)

InitList ==
    /\ \E n \in 0..MaxListed, odd \in ListedEscrows, even \in ListedEscrows :
          escrow = ListedStore(n, odd, even)
    /\ clock = 0
    /\ resp = NoResponse
    /\ req = NoRequest
    /\ procs = [p \in Procs |-> Idle]
    /\ releases = [id \in EscrowIds |-> "never"]
    /\ confirmers = [id \in EscrowIds |-> {}]
    /\ repeat = FALSE
    /\ telegramprofile = <<>>
    /\ sent = <<>>
    /\ telegram_api = FALSE

ListEscrows ==
    /\ \E email \in Emails \cup {NoEmail} : resp' = list_escrows(escrow, email)
    /\ UNCHANGED <<escrow, clock, req, procs, history, telegram>>

NextList == ListEscrows

SpecList == InitList /\ [][NextList]_vars

(***************************************************************************)
(* SpecTg: webhook deliveries, handled one after another.                  *)
(***************************************************************************)
Texts ==
    {<<>>, <<"hello">>, <<"/start">>,
     <<"/link">>, <<"/link", "a@x.com">>, <<"/link", "b@x.com">>, <<"/link", "foo">>,
     <<"/linkx", "a@x.com">>,
     <<"/pay", "b@x.com">>, <<"/pay", "b@x.com", "25">>, <<"/pay", "b@x.com", "abc">>,
     <<"/pay", "b@x.com", "0">>, <<"/pay", "b@x.com", "25", "DOGE">>,
     <<"/pay", "foo", "25">>, <<"/payment", "b@x.com", "25">>,
     <<"/PAY", "b@x.com", "25">>,
     <<"/confirm">>, <<"/confirm", "id1">>, <<"/confirm", "id2">>,
     <<"/confirm", "zzz">>,
     <<"/release">>, <<"/release", "id1">>,
     <<"/my">>, <<"/myself">>}

Updates == {NoMessage} \cup [message : {TRUE}, chat_id : ChatIds, parts : Texts]

WebhookResponse(update, code, calls) ==
    [op |-> "webhook", update |-> update, code |-> code, calls |-> calls]

\* The process starts with or without a bot token.
InitTg ==
    /\ escrow = <<>>
    /\ clock = 0
    /\ resp = NoResponse
    /\ req = NoRequest
    /\ procs = [p \in Procs |-> Idle]
    /\ releases = [id \in EscrowIds |-> "never"]
    /\ confirmers = [id \in EscrowIds |-> {}]
    /\ repeat = FALSE
    /\ telegramprofile = <<>>
    /\ sent = <<>>
    /\ telegram_api \in BOOLEAN

Deliver ==
    /\ \E update \in Updates :
          LET r == telegram_webhook(telegram_api, escrow, telegramprofile, update, clock)
          IN  /\ \A n \in 1..Len(r.escrow) : OidOf(n) \in EscrowIds
              /\ escrow' = r.escrow
              /\ telegramprofile' = r.telegramprofile
              /\ sent' = r.sent
              /\ resp' = WebhookResponse(update, r.code, r.calls)
    /\ UNCHANGED <<clock, req, procs, history, telegram_api>>

NextTg == Deliver

SpecTg == InitTg /\ [][NextTg]_vars

(***************************************************************************)
(* SpecTgConc: webhook deliveries in flight in several server processes on *)
(* one database. Each step of a delivery is one operation of the store.    *)
(* The commands are those whose branch makes at most one such operation.   *)
(***************************************************************************)
ConcTexts == {<<"hello">>, <<"/start">>, <<"/link", "a@x.com">>, <<"/my">>}

ConcUpdates == {NoMessage} \cup [message : {TRUE}, chat_id : ChatIds, parts : ConcTexts]

\* The early returns, then db["telegramprofile"].find_one({"chat_id": chat_id}).
TgReceive(p) ==
    /\ procs[p].pc = "idle"
    /\ \E update \in ConcUpdates :
          IF ~telegram_api \/ ~update.message
          THEN Goes(p, Done(WebhookResponse(update, 200, <<>>)))
          ELSE IF ProfileAt(telegramprofile, update.chat_id) = 0
          THEN Goes(p, [pc |-> "tg_insert", update |-> update])
          ELSE Goes(p, [pc |-> "tg_command", update |-> update,
                        profile |-> telegramprofile[
                                        ProfileAt(telegramprofile, update.chat_id)]])
    /\ UNCHANGED <<escrow, clock, resp, req, history, telegram>>

\* create_document("telegramprofile", profile_doc)
TgInsert(p) ==
    /\ procs[p].pc = "tg_insert"
    /\ telegramprofile' = create_document(telegramprofile,
                                          TelegramProfile(procs[p].update.chat_id),
                                          clock)
    /\ Goes(p, [pc |-> "tg_find", update |-> procs[p].update])
    /\ UNCHANGED <<escrow, clock, resp, req, history, sent, telegram_api>>

\* The find_one after the insert.
TgFind(p) ==
    /\ procs[p].pc = "tg_find"
    /\ Goes(p, [pc |-> "tg_command", update |-> procs[p].update,
                profile |-> telegramprofile[
                                ProfileAt(telegramprofile, procs[p].update.chat_id)]])
    /\ UNCHANGED <<escrow, clock, resp, req, history, telegram>>

\* The command branch, with its one store operation and its reply.
TgCommand(p) ==
    /\ procs[p].pc = "tg_command"
    /\ LET update == procs[p].update
           r == Command(telegram_api, escrow, telegramprofile, procs[p].profile,
                        update.chat_id, update.parts, clock)
       IN  /\ escrow' = r.escrow
           /\ telegramprofile' = r.telegramprofile
           /\ sent' = r.sent
           /\ Goes(p, Done(WebhookResponse(update, r.code, r.calls)))
    /\ UNCHANGED <<clock, resp, req, history, telegram_api>>

NextTgConc ==
    \/ \E p \in Procs : TgReceive(p)
    \/ \E p \in Procs : TgInsert(p)
    \/ \E p \in Procs : TgFind(p)
    \/ \E p \in Procs : TgCommand(p)
    \/ \E p \in Procs : Return(p)

SpecTgConc == InitTg /\ [][NextTgConc]_vars

TypeOK ==
    /\ \A n \in 1..Len(escrow) : OidOf(n) \in EscrowIds
    /\ clock \in 0..MaxClock
    /\ \A n \in 1..Len(escrow) : EscrowValid(escrow[n])

(***************************************************************************)
(* Properties                                                              *)
(***************************************************************************)
\* In a step of Spec that is not a stutter, the clock stands still exactly
\* when a handler ran.
HandlerRan == clock' = clock

RecipientEmails(doc) == {doc.recipients[i].email : i \in 1..Len(doc.recipients)}
Parties(doc) == {doc.payer_email} \cup RecipientEmails(doc)

Flags(store) ==
    [n \in 1..Len(store) |->
        <<store[n].payer_confirmed,
          [i \in 1..Len(store[n].recipients) |-> store[n].recipients[i].confirmed]>>]

\* C1: a status of released or cancelled is terminal: no later call changes
\* the stored status, so a released escrow is never releasable again.
C1_ReleasedIsTerminal ==
    [][\A n \in 1..Len(escrow) :
          escrow[n].status \in {"released", "cancelled"}
              => escrow'[n].status = escrow[n].status]_vars

\* C2: at most one release call on an escrow succeeds.
C2_AtMostOneRelease == \A id \in EscrowIds : releases[id] # "again"

\* C3: when handlers run one after another, an escrow whose status is
\* releasable has payer_confirmed and every recipient's confirmed flag true.
C3_ReleasableImpliesAllConfirmed ==
    \A n \in 1..Len(escrow) :
        escrow[n].status = "releasable"
            => /\ escrow[n].payer_confirmed
               /\ \A i \in 1..Len(escrow[n].recipients) :
                      escrow[n].recipients[i].confirmed

C3_Witness ==
    \E n \in 1..Len(escrow) :
        /\ escrow[n].status = "releasable"
        /\ Len(escrow[n].recipients) >= 2
        /\ RecipientEmails(escrow[n]) \subseteq confirmers[OidOf(n)]

\* C4: once the payer's email and every recipient's email have
\* each made a successful confirm call, with no release in between, the
\* stored status is releasable.
C4_AllConfirmedIsReleasable ==
    \A n \in 1..Len(escrow) :
        Parties(escrow[n]) \subseteq confirmers[OidOf(n)]
            => escrow[n].status = "releasable"

\* What Spec does guarantee: the same for every escrow none of whose
\* recipients has the payer's email, with handlers run one after another.
AllConfirmedIsReleasableUnlessPayerIsRecipient ==
    \A n \in 1..Len(escrow) :
        /\ Parties(escrow[n]) \subseteq confirmers[OidOf(n)]
        /\ escrow[n].payer_email \notin RecipientEmails(escrow[n])
        => escrow[n].status = "releasable"

AllConfirmedIsReleasable_Witness ==
    \E n \in 1..Len(escrow) :
        /\ Parties(escrow[n]) \subseteq confirmers[OidOf(n)]
        /\ escrow[n].payer_email \notin RecipientEmails(escrow[n])
        /\ Cardinality(RecipientEmails(escrow[n])) = 2
        /\ escrow[n].status = "releasable"

\* C5: release succeeds, setting the status to released, exactly when the
\* stored status is releasable; on any other status it is rejected as not
\* releasable and on an unknown id as not found, and the record is unchanged.
C5_ReleaseOnlyWhenReleasable ==
    [][(HandlerRan /\ resp'.op = "release") =>
          LET id == resp'.id
              n == id[2]
              found == IsObjectId(id) /\ n \in 1..Len(escrow)
          IN  /\ resp'.code = 200 <=> (found /\ escrow[n].status = "releasable")
              /\ resp'.code = 200
                    => escrow' = [escrow EXCEPT ![n].status = "released"]
              /\ resp'.code # 200 => escrow' = escrow
              /\ (found /\ escrow[n].status # "releasable")
                    => /\ resp'.code = 400
                       /\ resp'.detail = "Escrow is not yet releasable"
              /\ (IsObjectId(id) /\ ~found) => resp'.code = 404]_vars

C5_Witness ==
    /\ resp.op = "release"
    /\ resp.detail = "Escrow is not yet releasable"
    /\ \E n \in 1..Len(escrow) : resp.id = OidOf(n) /\ escrow[n].status = "released"

\* C6: every record a successful create request produces is stored with
\* payer_confirmed false, every recipient's confirmed flag false and status
\* funded.
C6_CreatedUnconfirmed ==
    Succeeded(resp, "create") =>
        LET d == escrow[resp.id[2]]
        IN  /\ ~d.payer_confirmed
            /\ \A i \in 1..Len(d.recipients) : ~d.recipients[i].confirmed
            /\ d.status = "funded"

\* C7: with percentages in [0,100] and otherwise valid fields, create
\* succeeds iff the recipient list is non-empty and its percentages sum to
\* 100 within the tolerance; a rejection is a validation error and inserts
\* no record.
C7_CreateIffSumsToHundred ==
    resp.op = "create" =>
        LET p == req.payload
            recs == p.recipients
            fields_ok ==
                /\ p.total_amount > 0
                /\ p.currency \in Currencies
                /\ p.chain \in Chains
                /\ \A i \in 1..Len(recs) : recs[i].percentage \in 0..Hundred
            sums ==
                /\ Len(recs) > 0
                /\ SumPct(recs) >= Hundred - Tolerance
                /\ SumPct(recs) <= Hundred + Tolerance
        IN  fields_ok =>
                /\ resp.code = 200 <=> sums
                /\ resp.code = 200 => Len(escrow) = 1
                /\ resp.code # 200 => (resp.code = 400 /\ escrow = <<>>)

C7_Witness ==
    /\ resp.op = "create"
    /\ resp.code = 400
    /\ escrow = <<>>
    /\ req.payload.total_amount > 0
    /\ req.payload.currency \in Currencies
    /\ Len(req.payload.recipients) = 2

\* C8: a confirm call whose actor is neither the payer nor a recipient fails
\* with the not-party error and leaves the stored escrow unchanged.
C8_NotPartyChangesNothing ==
    [][(/\ HandlerRan
        /\ resp'.op = "confirm"
        /\ IsObjectId(resp'.id)
        /\ resp'.id[2] \in 1..Len(escrow)
        /\ resp'.actor \notin Parties(escrow[resp'.id[2]]))
       => /\ resp'.code = 400
          /\ resp'.detail = "Actor not part of this escrow"
          /\ escrow' = escrow]_vars

C8_Witness ==
    /\ resp.op = "confirm"
    /\ resp.detail = "Actor not part of this escrow"
    /\ \E n \in 1..Len(escrow) :
          /\ resp.id = OidOf(n)
          /\ escrow[n].payer_confirmed
          /\ escrow[n].updated_at < clock

\* C9: a second confirm by the same actor right after the first succeeds
\* and leaves payer_confirmed and every recipient's flag as they were.
C9_ConfirmIdempotent ==
    [][(/\ HandlerRan
        /\ Succeeded(resp, "confirm")
        /\ resp'.op = "confirm"
        /\ resp'.id = resp.id
        /\ resp'.actor = resp.actor)
       => /\ resp'.code = 200
          /\ Flags(escrow') = Flags(escrow)]_vars

C9_Witness ==
    /\ repeat
    /\ \E n \in 1..Len(escrow) :
          /\ resp.id = OidOf(n)
          /\ resp.actor \in RecipientEmails(escrow[n])
          /\ resp.actor # escrow[n].payer_email

\* C10: confirm and release have exclusive access to the record, so no
\* update is lost: when two confirm requests by two different recipients of
\* one escrow are in flight together and both succeed, both recipients'
\* confirmed flags are true in the stored record afterwards.
C10_NoLostConfirmation ==
    \A p, q \in Procs :
        (/\ p # q
         /\ procs[p].pc = "done" /\ Succeeded(procs[p].resp, "confirm")
         /\ procs[q].pc = "done" /\ Succeeded(procs[q].resp, "confirm")
         /\ procs[p].resp.id = procs[q].resp.id
         /\ procs[p].resp.actor # procs[q].resp.actor)
        => LET doc == escrow[procs[p].resp.id[2]]
               actors == {procs[p].resp.actor, procs[q].resp.actor}
           IN  actors \subseteq RecipientEmails(doc) \ {doc.payer_email}
                   => \A i \in 1..Len(doc.recipients) :
                          doc.recipients[i].email \in actors
                              => doc.recipients[i].confirmed

\* C14: confirm resolves the actor payer first. When the actor is the payer
\* only payer_confirmed is set and no recipient entry changes, even one with
\* the payer's email; otherwise every entry with the actor's email is marked
\* confirmed and nothing else changes.
C14_PayerFirstThenEveryMatch ==
    [][(HandlerRan /\ Succeeded(resp', "confirm")) =>
          LET n == resp'.id[2]
              actor == resp'.actor
              old == escrow[n]
              new == escrow'[n]
          IN  IF actor = old.payer_email
              THEN /\ new.payer_confirmed
                   /\ new.recipients = old.recipients
              ELSE /\ new.payer_confirmed = old.payer_confirmed
                   /\ Len(new.recipients) = Len(old.recipients)
                   /\ \A i \in 1..Len(old.recipients) :
                          new.recipients[i] =
                              IF old.recipients[i].email = actor
                              THEN [old.recipients[i] EXCEPT !.confirmed = TRUE]
                              ELSE old.recipients[i]]_vars

C14_Witness ==
    \E n \in 1..Len(escrow) :
        /\ Succeeded(resp, "confirm")
        /\ resp.id = OidOf(n)
        /\ resp.actor = escrow[n].payer_email
        /\ escrow[n].payer_confirmed
        /\ \E i \in 1..Len(escrow[n].recipients) :
              /\ escrow[n].recipients[i].email = resp.actor
              /\ ~escrow[n].recipients[i].confirmed

\* The fields of an escrow that are fixed at creation.
Terms(doc) ==
    <<doc.payer_email, doc.total_amount, doc.currency, doc.chain,
      [i \in 1..Len(doc.recipients) |->
          <<doc.recipients[i].email, doc.recipients[i].percentage>>]>>

\* C17: confirm and release, successful or not, leave payer_email,
\* total_amount, currency, chain and the number, order, emails and
\* percentages of the recipients unchanged, so the percentages keep their sum.
C17_TermsUnchanged ==
    [][(HandlerRan /\ resp'.op \in {"confirm", "release"}) =>
          /\ Len(escrow') = Len(escrow)
          /\ \A n \in 1..Len(escrow) :
                /\ Terms(escrow'[n]) = Terms(escrow[n])
                /\ SumPct(escrow'[n].recipients) = SumPct(escrow[n].recipients)]_vars

C17_Witness ==
    \E n \in 1..Len(escrow) :
        /\ releases[OidOf(n)] # "never"
        /\ Succeeded(resp, "confirm")
        /\ Len(escrow[n].recipients) = 2
        /\ Abs(SumPct(escrow[n].recipients) - Hundred) <= Tolerance

\* C18: updated_at is the time of the last mutation: every successful
\* confirm and every successful release sets it to the time of that call.
C18_UpdatedAtIsLastMutation ==
    [][(HandlerRan /\ resp'.op \in {"confirm", "release"} /\ resp'.code = 200)
          => escrow'[resp'.id[2]].updated_at = clock]_vars

\* C15: however the store operations of concurrent confirm requests on one
\* escrow interleave, the stored record is never releasable while
\* payer_confirmed or a recipient's confirmed flag is false, and a confirmed
\* flag that is true in the store is never false afterwards.
C15_ConcurrentConfirmsKeepFlags ==
    [][/\ \A n \in 1..Len(escrow') :
             escrow'[n].status = "releasable"
                 => escrow'[n].payer_confirmed /\ AllRecConfirmed(escrow'[n])
       /\ \A n \in 1..Len(escrow) :
             /\ escrow[n].payer_confirmed => escrow'[n].payer_confirmed
             /\ \A i \in 1..Len(escrow[n].recipients) :
                   escrow[n].recipients[i].confirmed
                       => escrow'[n].recipients[i].confirmed]_vars

\* The ids of the escrows email plays a part in, as payer or as a recipient.
PartOf(store, email) ==
    {OidOf(n) : n \in {m \in 1..Len(store) : email \in Parties(store[m])}}

Listed(response) == {response.items[i].id : i \in 1..Len(response.items)}

\* C11: for a non-empty filter email, list returns an escrow iff the email is
\* its payer_email or the email of one of its recipients: no escrow the email
\* plays no part in is returned and every escrow it plays a part in is.
C11_ListReturnsExactlyParts ==
    (resp.op = "list" /\ resp.email # NoEmail)
        => Listed(resp) = PartOf(escrow, resp.email)

\* C11 as the code has it: the escrows returned are escrows the email plays
\* a part in, each once; they are all of them when there are at most
\* ListLimit, and otherwise ListLimit of them.
C11_ListReturnsPartsUpToLimit ==
    (resp.op = "list" /\ resp.email # NoEmail)
        => LET parts == PartOf(escrow, resp.email)
           IN  /\ Listed(resp) \subseteq parts
               /\ Cardinality(Listed(resp)) = Len(resp.items)
               /\ \A i \in 1..Len(resp.items) :
                     escrow[resp.items[i].id[2]].payer_email = resp.items[i].payer_email
               /\ IF Cardinality(parts) <= ListLimit
                  THEN Listed(resp) = parts
                  ELSE Len(resp.items) = ListLimit

\* A list for an email that is only a recipient of some escrows, the second
\* recipient of one, and no part of others.
C11_Witness ==
    /\ resp.op = "list" /\ resp.email # NoEmail
    /\ Listed(resp) # {}
    /\ PartOf(escrow, resp.email) # {OidOf(n) : n \in 1..Len(escrow)}
    /\ \E i \in 1..Len(resp.items) :
          /\ resp.items[i].payer_email # resp.email
          /\ Len(resp.items[i].recipients) = 2
          /\ resp.items[i].recipients[2].email = resp.email

\* A delivery of a text message was handled by a process that has a token.
Handled == resp.op = "webhook" /\ resp.update.message /\ telegram_api

\* C12: every delivery of a text command gets exactly one reply, sent to the
\* chat it came from, and then the acknowledgment: no command ends with no
\* reply, with more than one, or with an error.
C12_ExactlyOneReplyThenAck ==
    Handled => /\ resp.code = 200
               /\ Len(sent) = 1
               /\ sent[1].chat_id = resp.update.chat_id

\* C13: the profile collection has at most one profile for each chat id,
\* also while deliveries for one chat id are handled concurrently.
C13_OneProfilePerChat ==
    \A c \in ChatIds :
        Cardinality({i \in 1..Len(telegramprofile) :
                        telegramprofile[i].chat_id = c}) <= 1

\* The email a chat id is linked to, NoEmail when it has no profile or its
\* profile has no email.
LinkedEmail(profiles, chat_id) ==
    IF ProfileAt(profiles, chat_id) = 0 THEN NoEmail
    ELSE profiles[ProfileAt(profiles, chat_id)].email

\* /pay with a numeric amount, /confirm with an id, and /my.
NeedsLink(parts) ==
    /\ parts # <<>>
    /\ \/ parts[1] = "/pay" /\ Len(parts) >= 3 /\ parts[3] \in DOMAIN FloatOf
       \/ parts[1] = "/confirm" /\ Len(parts) >= 2
       \/ parts[1] = "/my"

\* The step is the delivery of such a command from a chat with no linked email.
UnlinkedAsks ==
    /\ resp'.op = "webhook" /\ resp'.update.message
    /\ NeedsLink(resp'.update.parts)
    /\ LinkedEmail(telegramprofile, resp'.update.chat_id) = NoEmail

PromptSent ==
    /\ Len(sent') = 1
    /\ sent'[1].chat_id = resp'.update.chat_id
    /\ sent'[1].message.text \in {LinkPrompt, MyLinkPrompt}

NoEngineCall == resp'.calls = <<>> /\ escrow' = escrow

\* C16: from a chat with no linked email, /pay with a numeric amount,
\* /confirm <id> and /my are each answered with the prompt to link an email
\* and make no engine call: no escrow is created or changed, no list is made.
C16_UnlinkedGetsPrompt ==
    [][UnlinkedAsks => PromptSent /\ NoEngineCall]_vars

\* C16 as the code has it: the prompt is sent when the process has a bot
\* token; without one nothing is sent. No engine call is made either way.
C16_UnlinkedGetsPromptWithToken ==
    [][UnlinkedAsks => /\ NoEngineCall
                       /\ resp'.code = 200
                       /\ IF telegram_api THEN PromptSent ELSE sent' = <<>>]_vars

\* An unlinked chat asked to confirm an escrow that exists and got the prompt.
C16_Witness ==
    /\ Handled
    /\ resp.update.parts = <<"/confirm", "id1">>
    /\ Len(escrow) = 1
    /\ LinkedEmail(telegramprofile, resp.update.chat_id) = NoEmail
    /\ Len(sent) = 1 /\ sent[1].message.text = LinkPrompt

CommandWords == {"/start", "/link", "/pay", "/confirm", "/release", "/my"}

\* C19: the command is chosen by exact, case-sensitive match of the first
\* token: a message whose first token is none of the six commands gets the
\* unknown-command reply and changes no linked email and no escrow.
C19_ExactFirstToken ==
    [][(/\ resp'.op = "webhook" /\ resp'.update.message /\ telegram_api
        /\ \/ resp'.update.parts = <<>>
           \/ resp'.update.parts[1] \notin CommandWords)
       => /\ Len(sent') = 1
          /\ sent'[1].message.text = UnknownCommand
          /\ escrow' = escrow
          /\ \A c \in ChatIds :
                LinkedEmail(telegramprofile', c) = LinkedEmail(telegramprofile, c)]_vars

====
